---- MODULE Spec2Model ----
(***************************************************************************)
(* Model of src/src/io.rs: BufReader<R, A>, a buffered reader whose buffer *)
(* is a fixed-capacity ArrayDeque<A, Saturating>, and the Guard that        *)
(* commits the deque's length when try_fill_buf leaves its scope.           *)
(*                                                                         *)
(* The deque is modelled physically: a backing array xs of `capacity`      *)
(* slots, the physical index `tail` of the first logical element and the   *)
(* logical length `len`.  A slice is the sequence of the physical indices  *)
(* (0-based) it covers, so that the regions handed to the vectored read    *)
(* are places in the backing array, not values.                            *)
(***************************************************************************)
EXTENDS Integers, Sequences, FiniteSets, TLC

\* ---- bounds of the model ------------------------------------------------
MaxCap == 3      \* largest capacity of the backing array A
MaxSrc == 5      \* largest number of bytes the source holds
MaxDst == 3      \* largest destination handed to read()

\* ---- slot markers (not byte values) -------------------------------------
Uninit == 0 - 1  \* slot of the backing array never written
Moved  == 0 - 2  \* slot whose element was moved out by drain

Min(a, b) == IF a < b THEN a ELSE b

\* The bytes a source of n bytes yields, in order.  The adapter never looks
\* at byte values, so streams whose bytes identify their position (Ramp) and
\* streams with repeated values (Alt) cover its behaviour.
Ramp(n) == [i \in 1..n |-> i]
Alt(n) == [i \in 1..n |-> 100 + (i % 2)]
Streams == {Ramp(n) : n \in 0..MaxSrc} \cup {Alt(n) : n \in 2..MaxSrc}

VARIABLES
    inner,   \* BufReader.inner: the source, [data, pos, faulty, chunks]
    buf,     \* BufReader.buf: the deque, [xs, tail, len]
    out,     \* bytes handed to the caller so far (history)
    op,      \* the last public call: arguments, result, what it did, state at entry
    wraps    \* a source read has stored bytes into both regions (history)

vars == <<inner, buf, out, op, wraps>>

\* ---- ArrayDeque<A, Saturating> primitives used by io.rs ------------------
capacity(b) == Len(b.xs)
len(b) == b.len
is_full(b) == b.len = capacity(b)
is_empty(b) == b.len = 0

\* unsafe set_len: changes the logical length, touches no slot
set_len(b, n) == [b EXCEPT !.len = n]

\* n consecutive physical indices starting at from
Span(from, n) == [i \in 1..n |-> from + i - 1]

\* the occupied region as two slices, oldest first; the second is non-empty
\* exactly when the region wraps past the end of the backing array
as_mut_slices(b) ==
    IF b.tail + b.len <= capacity(b)
    THEN <<Span(b.tail, b.len), <<>>>>
    ELSE <<Span(b.tail, capacity(b) - b.tail), Span(0, b.tail + b.len - capacity(b))>>

as_slices(b) == as_mut_slices(b)

\* the values a slice views
Deref(b, s) == [i \in 1..Len(s) |-> b.xs[s[i] + 1]]

\* the logical content, oldest first
Content(b) == Deref(b, as_slices(b)[1] \o as_slices(b)[2])

\* drain(0..n): moves the first n logical elements out and advances the
\* logical start; the caller guarantees n <= len
drain(b, n) ==
    LET gone == SubSeq(as_slices(b)[1] \o as_slices(b)[2], 1, n)
    IN [xs   |-> [p \in 1..Len(b.xs) |->
                    IF \E i \in 1..Len(gone) : gone[i] + 1 = p THEN Moved ELSE b.xs[p]],
        tail |-> IF capacity(b) = 0 THEN 0 ELSE (b.tail + n) % capacity(b),
        len  |-> b.len - n]

\* ArrayDeque::new(): empty, nothing initialised
NewDeque(c) == [xs |-> [p \in 1..c |-> Uninit], tail |-> 0, len |-> 0]

\* ---- the source R -------------------------------------------------------
\* the errors a failing read can return
Errors == {"Interrupted", "Other"}

\* What one read_vectored call offered `room` bytes can do: report k bytes
\* (1..room while bytes remain, 0 at end of source or when nothing is
\* offered), or, for a faulty source, transfer j bytes and then fail with
\* some error.  A source with `chunks` yields its bytes chunk by chunk: a
\* read delivers what is left of the current chunk, up to the room offered.
read_vectored(in, room) ==
    LET left  == Len(in.data) - in.pos
        avail == Min(room, IF in.chunks = <<>> THEN left ELSE Head(in.chunks))
    IN {[ok |-> TRUE, bytes |-> k, err |-> "none"] :
            k \in (IF avail = 0 THEN {0}
                   ELSE IF in.chunks = <<>> THEN 1..avail ELSE {avail})}
       \cup (IF in.faulty
             THEN {[ok |-> FALSE, bytes |-> j, err |-> e] : j \in 0..avail, e \in Errors}
             ELSE {})

\* the source after transferring n bytes
Advance(in, n) ==
    [in EXCEPT !.pos = in.pos + n,
               !.chunks = IF in.chunks = <<>> \/ n = 0 THEN in.chunks
                          ELSE IF n = Head(in.chunks) THEN Tail(in.chunks)
                          ELSE <<Head(in.chunks) - n>> \o Tail(in.chunks)]

\* the backing array after the source stored `bytes` at the front of `region`
Store(xs, region, bytes) ==
    [p \in 1..Len(xs) |->
        IF \E i \in 1..Len(bytes) : region[i] + 1 = p
        THEN bytes[CHOOSE i \in 1..Len(bytes) : region[i] + 1 = p]
        ELSE xs[p]]

\* ---- Guard --------------------------------------------------------------
Guard(b, n) == [buf |-> b, len |-> n]

\* a Drop that commits nothing: the provisional length stays
drop_forget(g) == g.buf

\* Drop for Guard: commit the tracked length
drop(g) == set_len(g.buf, g.len)

\* ---- BufReader::try_fill_buf ---------------------------------------------
\* the match with the second arm testing `empty_pos > len1`
advance_gt(len1, len2, empty_pos) ==
    IF empty_pos < len1 THEN <<empty_pos, 0, 1>>
    ELSE IF empty_pos > len1 /\ empty_pos - len1 < len2 THEN <<len1, empty_pos - len1, 2>>
    ELSE <<len1, len2, 3>>

\* the match with the second arm forgetting the offset into the second slice
advance_flat(len1, len2, empty_pos) ==
    IF empty_pos < len1 THEN <<empty_pos, 0, 1>>
    ELSE IF empty_pos >= len1 /\ empty_pos - len1 < len2 THEN <<len1, 0, 2>>
    ELSE <<len1, len2, 3>>

\* the match with the first arm skipping the whole second slice
advance_nosecond(len1, len2, empty_pos) ==
    IF empty_pos < len1 THEN <<empty_pos, len2, 1>>
    ELSE IF empty_pos >= len1 /\ empty_pos - len1 < len2 THEN <<len1, empty_pos - len1, 2>>
    ELSE <<len1, len2, 3>>

\* the match on (bufs.0.len(), bufs.1.len()): <<advance1, advance2, branch>>
advance(len1, len2, empty_pos) ==
    IF empty_pos < len1 THEN <<empty_pos, 0, 1>>
    ELSE IF empty_pos >= len1 /\ empty_pos - len1 < len2 THEN <<len1, empty_pos - len1, 2>>
    ELSE <<len1, len2, 3>>

\* s[n + 1..]
From_skip(s, n) == SubSeq(s, n + 2, Len(s))

\* s[..]: the whole slice, no offset
From_all(s, n) == s

\* s[n..]
From(s, n) == SubSeq(s, n + 1, Len(s))

\* the two IoSliceMut regions handed to read_vectored, and the branch taken
FillRegions(b) ==
    LET empty_pos == len(b)
        g    == Guard(set_len(b, capacity(b)), empty_pos)
        bufs == as_mut_slices(g.buf)
        adv  == advance(Len(bufs[1]), Len(bufs[2]), empty_pos)
    IN [r1 |-> From(bufs[1], adv[1]), r2 |-> From(bufs[2], adv[2]), branch |-> adv[3]]

\* `g.len = bytes` in place of `g.len += bytes`
Committed_set(empty_pos, o) == IF o.ok THEN o.bytes ELSE empty_pos

\* the length the guard commits: g.len += bytes runs only when the read
\* succeeded; `?` leaves the scope before it otherwise
Committed(empty_pos, o) == IF o.ok THEN empty_pos + o.bytes ELSE empty_pos

\* A result of a call: the adapter afterwards, the returned value, and a
\* record of what the call did.
Result(in, b, ok, n, slice, fills, reads, regions, src) ==
    [inner |-> in, buf |-> b, ok |-> ok, n |-> n, slice |-> slice,
     err |-> IF ok THEN "none" ELSE src.err,
     peeks |-> 0, front |-> 0, fills |-> fills, reads |-> reads,
     regions |-> regions, src |-> src]

NoRegions == [r1 |-> <<>>, r2 |-> <<>>, branch |-> 0]
NoSrc == [ok |-> TRUE, bytes |-> 0, err |-> "none"]

\* try_fill_buf without the early return on a full buffer
try_fill_buf_nocheck(in, b) ==
    LET empty_pos == len(b)
        g0     == Guard(b, empty_pos)
        g1     == [g0 EXCEPT !.buf = set_len(g0.buf, capacity(g0.buf))]
        fr     == FillRegions(b)
        region == fr.r1 \o fr.r2
    IN {LET bytes == SubSeq(in.data, in.pos + 1, in.pos + o.bytes)
            g2 == [g1 EXCEPT !.buf.xs = Store(g1.buf.xs, region, bytes),
                             !.len = Committed(g1.len, o)]
        IN Result(Advance(in, o.bytes), drop(g2), o.ok,
                  IF o.ok THEN o.bytes ELSE 0, <<>>, 1, 1, fr, o)
        : o \in read_vectored(in, Len(region))}

\* the set of possible results of try_fill_buf: the guard is created with
\* the restore point, the length is extended to capacity, the source stores
\* into the two regions, the guard's length is advanced and dropped
try_fill_buf(in, b) ==
    IF is_full(b)
    THEN {Result(in, b, TRUE, 0, <<>>, 1, 0, NoRegions, NoSrc)}
    ELSE LET empty_pos == len(b)
             g0     == Guard(b, empty_pos)
             g1     == [g0 EXCEPT !.buf = set_len(g0.buf, capacity(g0.buf))]
             fr     == FillRegions(b)
             region == fr.r1 \o fr.r2
         IN {LET bytes == SubSeq(in.data, in.pos + 1, in.pos + o.bytes)
                 g2 == [g1 EXCEPT !.buf.xs = Store(g1.buf.xs, region, bytes),
                                  !.len = Committed(g1.len, o)]
             IN Result(Advance(in, o.bytes), drop(g2), o.ok,
                       IF o.ok THEN o.bytes ELSE 0, <<>>, 1, 1, fr, o)
             : o \in read_vectored(in, Len(region))}

\* ---- BufRead::fill_buf, BufRead::consume, Read::read ----------------------
\* as_slices().1 in place of as_slices().0
Front_second(r) ==
    LET s == Deref(r.buf, as_slices(r.buf)[2])
    IN [r EXCEPT !.n = 0, !.slice = s, !.front = Len(s), !.peeks = 1]

\* the value fill_buf returns on success: as_slices().0
Front(r) ==
    LET s == Deref(r.buf, as_slices(r.buf)[1])
    IN [r EXCEPT !.n = 0, !.slice = s, !.front = Len(s), !.peeks = 1]

\* fill_buf with the test `!is_full()` in place of `is_empty()`
fill_buf_eager(in, b) ==
    IF ~is_full(b)
    THEN {IF r.ok THEN Front(r) ELSE [r EXCEPT !.peeks = 1] : r \in try_fill_buf(in, b)}
    ELSE {Front(Result(in, b, TRUE, 0, <<>>, 0, 0, NoRegions, NoSrc))}

\* fill_buf ignoring the result of try_fill_buf
fill_buf_swallow(in, b) ==
    IF is_empty(b)
    THEN {Front([r EXCEPT !.ok = TRUE, !.err = "none"]) : r \in try_fill_buf(in, b)}
    ELSE {Front(Result(in, b, TRUE, 0, <<>>, 0, 0, NoRegions, NoSrc))}

\* fill_buf: one try_fill_buf when the buffer is empty, then the front slice
fill_buf(in, b) ==
    IF is_empty(b)
    THEN {IF r.ok THEN Front(r) ELSE [r EXCEPT !.peeks = 1] : r \in try_fill_buf(in, b)}
    ELSE {Front(Result(in, b, TRUE, 0, <<>>, 0, 0, NoRegions, NoSrc))}

\* consume draining one element fewer
consume_short(b, amt) == drain(b, IF amt > 0 THEN amt - 1 ELSE 0)

\* consume(amt): drain(0..amt)
consume(b, amt) == drain(b, amt)

\* read consuming the whole peeked slice, not only what it copied
read_dropping(in, b, d) ==
    {IF p.ok
     THEN LET nread == Min(d, Len(p.slice))
          IN [p EXCEPT !.n = nread, !.slice = SubSeq(p.slice, 1, nread),
                       !.buf = consume(p.buf, Len(p.slice))]
     ELSE p
     : p \in fill_buf(in, b)}

\* read without the call of consume
read_noconsume(in, b, d) ==
    {IF p.ok
     THEN LET nread == Min(d, Len(p.slice))
          IN [p EXCEPT !.n = nread, !.slice = SubSeq(p.slice, 1, nread)]
     ELSE p
     : p \in fill_buf(in, b)}

\* read(dst) with dst.len() = d: the slice's own read copies min(d, len)
\* bytes; `slice` becomes the bytes copied into dst
read(in, b, d) ==
    {IF p.ok
     THEN LET nread == Min(d, Len(p.slice))
          IN [p EXCEPT !.n = nread, !.slice = SubSeq(p.slice, 1, nread),
                       !.buf = consume(p.buf, nread)]
     ELSE p
     : p \in fill_buf(in, b)}

\* ---- accessors -----------------------------------------------------------
\* get_ref: &self.inner
get_ref(in, b) == {Result(in, b, TRUE, 0, <<>>, 0, 0, NoRegions, NoSrc)}

\* get_mut: &mut self.inner
get_mut(in, b) == {Result(in, b, TRUE, 0, <<>>, 0, 0, NoRegions, NoSrc)}

\* a buffer() that fills an empty deque before returning it
buffer_filling(in, b) ==
    {[r EXCEPT !.slice = Content(r.buf), !.peeks = 0, !.front = 0] : r \in fill_buf(in, b)}

\* buffer: &self.buf; `slice` is the content the caller can see through it
buffer(in, b) == {Result(in, b, TRUE, 0, Content(b), 0, 0, NoRegions, NoSrc)}

\* ---- the state machine --------------------------------------------------
Call(name, arg, r) ==
    [name |-> name, arg |-> arg, ok |-> r.ok, n |-> r.n, slice |-> r.slice,
     err |-> r.err, peeks |-> r.peeks, front |-> r.front, fills |-> r.fills, reads |-> r.reads,
     regions |-> r.regions, src |-> r.src,
     pre |-> [inner |-> inner, buf |-> buf]]

\* the source stored into the first region and went on into the second
Spilled(r) ==
    r.reads = 1 /\ Len(r.regions.r1) >= 1 /\ r.src.bytes > Len(r.regions.r1)

Init ==
    /\ \E data \in Streams, f \in BOOLEAN :
          inner = [data |-> data, pos |-> 0, faulty |-> f, chunks |-> <<>>]
    /\ \E c \in 0..MaxCap : buf = NewDeque(c)
    /\ out = <<>>
    /\ wraps = FALSE
    /\ op = Call("new", 0, Result(inner, buf, TRUE, 0, <<>>, 0, 0, NoRegions, NoSrc))

\* a call of try_fill_buf
Fill ==
    \E r \in try_fill_buf(inner, buf) :
        /\ inner' = r.inner
        /\ buf' = r.buf
        /\ out' = out
        /\ op' = Call("Fill", 0, r)
        /\ wraps' = (wraps \/ Spilled(r))

\* a call of fill_buf; the caller only looks at the slice
Peek ==
    \E r \in fill_buf(inner, buf) :
        /\ inner' = r.inner
        /\ buf' = r.buf
        /\ out' = out
        /\ op' = Call("Peek", 0, r)
        /\ wraps' = (wraps \/ Spilled(r))

\* a call of consume(n) within its precondition n <= len; the caller has
\* taken the bytes it consumes
Consume ==
    \E n \in 0..len(buf) :
        /\ inner' = inner
        /\ buf' = consume(buf, n)
        /\ out' = out \o SubSeq(Content(buf), 1, n)
        /\ op' = Call("Consume", n,
                      Result(inner, consume(buf, n), TRUE, n, <<>>, 0, 0, NoRegions, NoSrc))
        /\ wraps' = wraps

\* a call of read(dst) with a destination of d bytes
ReadCall(d) ==
    \E r \in read(inner, buf, d) :
        /\ inner' = r.inner
        /\ buf' = r.buf
        /\ out' = IF r.ok THEN out \o r.slice ELSE out
        /\ op' = Call("Read", d, r)
        /\ wraps' = (wraps \/ Spilled(r))

Read == \E d \in 0..MaxDst : ReadCall(d)

\* a call of an accessor: nothing is handed to the caller but the reference
Access(name, results) ==
    \E r \in results :
        /\ inner' = r.inner
        /\ buf' = r.buf
        /\ out' = out
        /\ op' = Call(name, 0, r)
        /\ wraps' = (wraps \/ Spilled(r))

GetRef == Access("get_ref", get_ref(inner, buf))

GetMut == Access("get_mut", get_mut(inner, buf))

Buffer == Access("buffer", buffer(inner, buf))

Next == Fill \/ Peek \/ Consume \/ Read \/ GetRef \/ GetMut \/ Buffer

Spec == Init /\ [][Next]_vars

\* ---- the "hello world" scenario -------------------------------------------
\* b"hello world"
Hello == <<104, 101, 108, 108, 111, 32, 119, 111, 114, 108, 100>>

\* a source yielding "hello world" in chunks of 6 and 5 bytes behind a
\* buffer of capacity 8
InitHello ==
    /\ inner = [data |-> Hello, pos |-> 0, faulty |-> FALSE, chunks |-> <<6, 5>>]
    /\ buf = NewDeque(8)
    /\ out = <<>>
    /\ wraps = FALSE
    /\ op = Call("new", 0, Result(inner, buf, TRUE, 0, <<>>, 0, 0, NoRegions, NoSrc))

SpecHello == InitHello /\ [][Next]_vars

\* ---- reading to exhaustion -----------------------------------------------
\* a source that never fails behind a buffer of capacity >= 1
InitDrain ==
    /\ \E data \in Streams :
          inner = [data |-> data, pos |-> 0, faulty |-> FALSE, chunks |-> <<>>]
    /\ \E c \in 1..MaxCap : buf = NewDeque(c)
    /\ out = <<>>
    /\ wraps = FALSE
    /\ op = Call("new", 0, Result(inner, buf, TRUE, 0, <<>>, 0, 0, NoRegions, NoSrc))

\* the caller's loop: read into a non-empty destination, again and again
Drain == \E d \in 1..MaxDst : ReadCall(d)

SpecDrain == InitDrain /\ [][Drain]_vars /\ WF_vars(Drain)

TypeOK ==
    /\ buf.len \in 0..capacity(buf)
    /\ buf.tail \in 0..capacity(buf)
    /\ inner.pos \in 0..Len(inner.data)

\* ---- vocabulary of the properties ---------------------------------------
\* the bytes the source transferred in the last call's read_vectored
Delivered ==
    SubSeq(op.pre.inner.data, op.pre.inner.pos + 1, op.pre.inner.pos + op.src.bytes)

\* the bytes offered to the source by the last call, in order
Offered == op.regions.r1 \o op.regions.r2

\* the slots of the occupied region, in logical order
Occupied(b) == as_slices(b)[1] \o as_slices(b)[2]

\* the slots outside the occupied region
FreeSlots(b) ==
    {p \in 0..(capacity(b) - 1) : \A i \in 1..Len(Occupied(b)) : Occupied(b)[i] # p}

\* the occupied region wraps past the physical end of the backing array
Wrapped(b) == b.tail + b.len > capacity(b)

\* the last call was try_fill_buf on a buffer that was not full
FilledNonFull == op.name = "Fill" /\ ~is_full(op.pre.buf)

\* ---- properties ---------------------------------------------------------

\* C1: Round trip.  With a source that never fails, the bytes handed to the
\* caller followed by the bytes still buffered are always exactly the bytes
\* the source has delivered so far, in order; and when a read() into a
\* non-empty destination returns 0 on a buffer of capacity >= 1, the bytes
\* handed to the caller are the whole source stream.
RoundTrip ==
    ~inner.faulty =>
        /\ out \o Content(buf) = SubSeq(inner.data, 1, inner.pos)
        /\ (op.name = "Read" /\ op.arg >= 1 /\ op.ok /\ op.n = 0 /\ capacity(buf) >= 1)
              => out = inner.data

RoundTripWitness ==
    /\ ~inner.faulty /\ op.name = "Read" /\ op.arg >= 1 /\ op.ok /\ op.n = 0
    /\ capacity(buf) >= 2 /\ Len(inner.data) > capacity(buf)
    /\ wraps /\ out = inner.data

\* C2: No data loss on a partial read.  When try_fill_buf runs on a non-full
\* buffer of length L and the source's read succeeds reporting k bytes, then
\* 0 <= k <= capacity - L, try_fill_buf returns Ok(k), the length becomes
\* L + k and the content is the old content followed by the k bytes in the
\* order the source delivered them.
PartialReadKept ==
    (FilledNonFull /\ op.src.ok) =>
        /\ op.ok /\ op.n = op.src.bytes
        /\ op.src.bytes \in 0..(capacity(buf) - len(op.pre.buf))
        /\ len(buf) = len(op.pre.buf) + op.src.bytes
        /\ Content(buf) = Content(op.pre.buf) \o Delivered

PartialReadKeptWitness ==
    /\ FilledNonFull /\ op.src.ok
    /\ op.pre.buf.tail # 0
    /\ Len(op.regions.r1) >= 1
    /\ op.src.bytes > Len(op.regions.r1)
    /\ op.src.bytes < Len(Offered)

\* C3: No data loss on an erroring read.  When the source transfers k bytes
\* during try_fill_buf and then fails, the error is returned, the length has
\* grown by exactly k and the k bytes follow the old content.
ErrorReadKept ==
    (FilledNonFull /\ ~op.src.ok) =>
        /\ ~op.ok
        /\ len(buf) = len(op.pre.buf) + op.src.bytes
        /\ Content(buf) = Content(op.pre.buf) \o Delivered

\* C4: Full-buffer idempotence.  try_fill_buf on a full buffer returns
\* Ok(0), does not call the source, and leaves the deque (length, slots,
\* physical start) and the source unchanged.
FullFillIdempotent ==
    (op.name = "Fill" /\ is_full(op.pre.buf)) =>
        /\ op.ok /\ op.n = 0 /\ op.reads = 0
        /\ buf = op.pre.buf
        /\ inner = op.pre.inner

FullFillIdempotentWitness ==
    /\ op.name = "Fill" /\ is_full(op.pre.buf)
    /\ capacity(buf) >= 2 /\ buf.tail # 0
    /\ inner.pos < Len(inner.data)

\* C5: Meaning of a zero result.  try_fill_buf returns Ok(0) only if the
\* buffer was full at entry or the source's read reported 0 bytes; when the
\* buffer is not full at entry the regions offered hold at least one byte;
\* so Ok(0) on a buffer that is not full means the source is at its end.
ZeroMeansFullOrEnd ==
    op.name = "Fill" =>
        /\ (op.ok /\ op.n = 0) =>
              \/ is_full(op.pre.buf)
              \/ (op.reads = 1 /\ op.src.ok /\ op.src.bytes = 0)
        /\ ~is_full(op.pre.buf) => Len(Offered) >= 1
        /\ (op.ok /\ op.n = 0 /\ ~is_full(buf)) =>
              /\ op.reads = 1 /\ Len(Offered) >= 1
              /\ op.pre.inner.pos = Len(op.pre.inner.data)

ZeroMeansFullOrEndWitness ==
    /\ op.name = "Fill" /\ op.ok /\ op.n = 0
    /\ ~is_full(buf) /\ len(buf) >= 1 /\ buf.tail # 0

\* C6: Length invariant.  After every call, returned normally or with an
\* error, 0 <= length <= capacity and the occupied slots and the free slots
\* together are the capacity; when try_fill_buf has called the source the
\* regions it offered were exactly the free length; and the buffer is full
\* after such a fill only if the source reported exactly capacity - L bytes.
LengthInvariant ==
    /\ len(buf) \in 0..capacity(buf)
    /\ len(buf) + Cardinality(FreeSlots(buf)) = capacity(buf)
    /\ (op.name \in {"Fill", "Peek"} /\ op.reads = 1) =>
          /\ Len(Offered) = capacity(buf) - len(op.pre.buf)
          /\ is_full(buf) =>
                (op.src.ok /\ op.src.bytes = capacity(buf) - len(op.pre.buf))

LengthInvariantWitness ==
    /\ op.name = "Fill" /\ op.reads = 1 /\ ~op.ok
    /\ op.src.bytes >= 1
    /\ Wrapped(buf)

\* C7: No exposure of uninitialised memory.  After every call, also one
\* that ended in a source error or a short read, every logical position
\* below the length holds a byte the source has delivered, never a slot that
\* was never written or whose byte was moved out by consume.
NoUninitExposed ==
    \A i \in 1..len(buf) :
        Content(buf)[i] \in {inner.data[j] : j \in 1..inner.pos}

NoUninitExposedWitness ==
    /\ op.name = "Fill" /\ op.reads = 1
    /\ op.src.bytes >= 1 /\ op.src.bytes < Len(Offered)
    /\ len(buf) >= 1
    /\ \E p \in FreeSlots(buf) : buf.xs[p + 1] = Uninit
    /\ \E p \in FreeSlots(buf) : buf.xs[p + 1] = Moved

\* C8: Consume.  consume(n) with n <= L removes exactly the first n logical
\* bytes, keeps the other L - n in order, and does not touch the source;
\* consume(L) leaves the buffer empty, and full only at capacity 0; and a
\* fill_buf that follows consume(L) makes exactly one try_fill_buf.
ConsumeState ==
    op.name = "Consume" =>
        /\ op.arg <= len(op.pre.buf)
        /\ len(buf) = len(op.pre.buf) - op.arg
        /\ Content(buf) = SubSeq(Content(op.pre.buf), op.arg + 1, len(op.pre.buf))
        /\ inner = op.pre.inner
        /\ op.reads = 0 /\ op.fills = 0
        /\ op.arg = len(op.pre.buf) =>
              /\ is_empty(buf)
              /\ is_full(buf) <=> capacity(buf) = 0

PeekAfterConsumeAll ==
    (op.name = "Consume" /\ op.arg = len(op.pre.buf) /\ op'.name = "Peek")
        => op'.fills = 1

ConsumeRemovesPrefix == []ConsumeState /\ [][PeekAfterConsumeAll]_vars

ConsumeRemovesPrefixWitness ==
    /\ op.name = "Consume"
    /\ op.arg = len(op.pre.buf) /\ op.arg >= 2
    /\ Wrapped(op.pre.buf)

\* C9: No retry.  try_fill_buf calls the source once when the buffer is not
\* full and not at all when it is full; fill_buf makes one try_fill_buf when
\* the buffer is empty and none otherwise; read makes one fill_buf.  So no
\* call reads the source twice, and fill_buf and read on a non-empty buffer
\* succeed without touching the source.
NoRetry ==
    /\ op.reads <= 1
    /\ op.name = "Fill" =>
          op.fills = 1 /\ op.reads = (IF is_full(op.pre.buf) THEN 0 ELSE 1)
    /\ op.name \in {"Peek", "Read"} =>
          /\ op.peeks = 1
          /\ op.fills = (IF is_empty(op.pre.buf) THEN 1 ELSE 0)
          /\ ~is_empty(op.pre.buf) =>
                (op.reads = 0 /\ op.ok /\ inner = op.pre.inner)

NoRetryWitness ==
    /\ op.name = "Read" /\ op.arg >= 1
    /\ ~is_empty(op.pre.buf) /\ ~is_full(op.pre.buf)
    /\ inner.pos < Len(inner.data)
    /\ op.reads = 0

\* C10: Read result.  A successful read into a destination of d bytes whose
\* fill_buf returned a front slice of s bytes returns n = min(d, s), copies
\* the first n logical bytes of the buffer, and consumes exactly those: the
\* bytes buffered but not copied stay, in order.
ReadResult ==
    (op.name = "Read" /\ op.ok) =>
        LET before == Content(op.pre.buf) \o (IF op.reads = 1 THEN Delivered ELSE <<>>)
            n == Min(op.arg, op.front)
        IN /\ op.n = n
           /\ op.slice = SubSeq(before, 1, n)
           /\ len(buf) = Len(before) - n
           /\ Content(buf) = SubSeq(before, n + 1, Len(before))

ReadResultWitness ==
    /\ op.name = "Read" /\ op.ok
    /\ op.front >= 2 /\ op.arg < op.front
    /\ Wrapped(op.pre.buf)
\* C11: the "hello world" scenario.  The three steps are recognised by the
\* state each call started from: the first fill_buf starts from the new
\* adapter; the read(dst[4]) starts with everything delivered still
\* buffered at physical start 0 and hands out the first bytes; the next
\* fill_buf starts with 4 bytes handed out and the rest still buffered.
AfterPeek1 ==
    op.name = "Peek" /\ op.pre.inner.pos = 0 /\ op.pre.buf = NewDeque(8)

AfterRead2 ==
    /\ op.name = "Read" /\ op.arg = 4 /\ op.ok /\ out = op.slice
    /\ op.pre.buf.tail = 0 /\ len(op.pre.buf) >= 4
    /\ op.pre.inner.pos = len(op.pre.buf)

AfterPeek3 ==
    /\ op.name = "Peek" /\ Len(out) = 4
    /\ op.pre.buf.tail = 4 /\ len(op.pre.buf) >= 1
    /\ op.pre.inner.pos = 4 + len(op.pre.buf)

AccessorsPure ==
    op.name \in {"get_ref", "get_mut", "buffer"} =>
        /\ op.ok /\ op.fills = 0 /\ op.reads = 0
        /\ buf = op.pre.buf
        /\ inner = op.pre.inner

AccessorsPureWitness ==
    /\ op.name = "buffer"
    /\ is_empty(buf) /\ capacity(buf) >= 2 /\ buf.tail # 0
    /\ inner.pos < Len(inner.data)

\* C13: Wrap-around free-space geometry.  Whenever try_fill_buf calls the
\* source, with capacity C, physical start t and length L < C, the two
\* regions taken in order are the C - L slots (t + L) % C, (t + L + 1) % C,
\* ...: the free slots in logical order from the slot after the last occupied
\* one, wrapping at the physical end; none of them is occupied.
FreeGeometry ==
    op.reads = 1 =>
        LET C == capacity(op.pre.buf)
            t == op.pre.buf.tail
            L == len(op.pre.buf)
        IN /\ L < C
           /\ Len(Offered) = C - L
           /\ Offered = [i \in 1..(C - L) |-> (t + L + i - 1) % C]
           /\ \A i \in 1..Len(Offered) : Offered[i] \in FreeSlots(op.pre.buf)

FreeGeometryWitness ==
    /\ op.name = "Fill" /\ op.reads = 1
    /\ len(op.pre.buf) >= 1
    /\ Len(op.regions.r1) >= 1 /\ Len(op.regions.r2) >= 1

\* C14: State on error exit.  When the source's read fails, the call
\* (try_fill_buf, or the fill_buf or read that triggered it) made that one
\* read only and returns the source's error; the length is the length L at
\* entry, the deque's physical start and its L bytes are unchanged, nothing
\* is copied to the destination and nothing is handed to the caller.
ErrorExitState ==
    (op.reads = 1 /\ ~op.src.ok) =>
        /\ ~op.ok /\ op.err = op.src.err /\ op.err \in Errors
        /\ op.fills = 1
        /\ len(buf) = len(op.pre.buf)
        /\ buf.tail = op.pre.buf.tail
        /\ Content(buf) = Content(op.pre.buf)
        /\ op.n = 0 /\ op.slice = <<>>

ErrorExitOut == (op'.reads = 1 /\ ~op'.src.ok) => out' = out

FillKeepsBuffered ==
    op.name = "Fill" =>
        LET L == len(op.pre.buf)
        IN /\ len(buf) >= L
           /\ buf.tail = op.pre.buf.tail
           /\ SubSeq(Content(buf), 1, L) = Content(op.pre.buf)
           /\ \A i \in 1..L :
                 buf.xs[Occupied(op.pre.buf)[i] + 1] = op.pre.buf.xs[Occupied(op.pre.buf)[i] + 1]

FillKeepsBufferedWitness ==
    /\ op.name = "Fill" /\ op.reads = 1
    /\ Wrapped(op.pre.buf)
    /\ op.src.bytes >= 1

\* C16: Progress on buffered data.  When the buffer is non-empty, fill_buf
\* returns a non-empty slice that is a prefix of the content and read into a
\* non-empty destination returns at least 1; fill_buf returns an empty slice,
\* or read into a non-empty destination returns 0, only when the buffer was
\* empty and the one try_fill_buf added nothing.
ProgressOnBuffered ==
    (op.name \in {"Peek", "Read"} /\ op.ok) =>
        /\ ~is_empty(op.pre.buf) =>
              /\ op.front >= 1
              /\ op.name = "Peek" => op.slice = SubSeq(Content(op.pre.buf), 1, op.front)
              /\ (op.name = "Read" /\ op.arg >= 1) => op.n >= 1
        /\ (op.name = "Peek" /\ ~is_empty(buf)) =>
              (op.slice # <<>> /\ op.slice = SubSeq(Content(buf), 1, op.front))
        /\ (op.front = 0 \/ (op.name = "Read" /\ op.arg >= 1 /\ op.n = 0)) =>
              /\ is_empty(op.pre.buf) /\ op.fills = 1
              /\ op.src.bytes = 0
              /\ is_empty(buf)

ProgressOnBufferedWitness ==
    /\ op.name = "Peek" /\ op.ok
    /\ Wrapped(op.pre.buf)
    /\ op.front >= 1 /\ op.front < len(buf)

\* C17: Reading to exhaustion terminates.  With a source that never fails
\* and a buffer of capacity >= 1, a caller that keeps calling read with a
\* non-empty destination eventually receives 0; read returns 0 only when no
\* source byte is undelivered and none is buffered; every read that returns a
\* positive count hands the caller at least one new byte, and the caller
\* never holds more than the N bytes of the source, so at most N reads
\* return a positive count.
ReadZero == op.name = "Read" /\ op.arg >= 1 /\ op.ok /\ op.n = 0

DrainSafe ==
    /\ Len(out) <= Len(inner.data)
    /\ ReadZero =>
          /\ op.pre.inner.pos = Len(inner.data)
          /\ is_empty(op.pre.buf)
          /\ Len(out) = Len(inner.data)

PositiveReadGrows ==
    (op'.name = "Read" /\ op'.ok /\ op'.n >= 1) => Len(out') = Len(out) + op'.n

DrainTerminates == <>ReadZero /\ []DrainSafe /\ [][PositiveReadGrows]_vars

DrainTerminatesWitness ==
    /\ ReadZero
    /\ Len(out) >= 3 /\ capacity(buf) >= 2 /\ wraps

\* C18: Offset-selection branches.  With len1 and len2 the sizes of the two
\* slices exposed at full capacity and L the length at entry: the first arm
\* is taken exactly when L < len1 and offers first[L..] and all of second;
\* the second arm is taken when len1 <= L < len1 + len2 and offers an empty
\* first region and second[L - len1..]; the fallback arm offers two empty
\* regions, is selected only for L >= len1 + len2 = capacity, and is never
\* taken by a try_fill_buf.
BranchSelection ==
    /\ \A l1 \in 0..MaxCap, l2 \in 0..MaxCap, e \in 0..(2 * MaxCap) :
          advance(l1, l2, e)[3] = 3 => (e >= l1 + l2 /\ advance(l1, l2, e) = <<l1, l2, 3>>)
    /\ op.reads = 1 =>
          LET L      == len(op.pre.buf)
              first  == as_mut_slices(set_len(op.pre.buf, capacity(op.pre.buf)))[1]
              second == as_mut_slices(set_len(op.pre.buf, capacity(op.pre.buf)))[2]
          IN /\ Len(first) + Len(second) = capacity(buf)
             /\ op.regions.branch \in {1, 2}
             /\ op.regions.branch = 1 <=> L < Len(first)
             /\ op.regions.branch = 1 =>
                   /\ op.regions.r1 = SubSeq(first, L + 1, Len(first))
                   /\ op.regions.r2 = second
             /\ op.regions.branch = 2 =>
                   /\ Len(first) <= L /\ L < Len(first) + Len(second)
                   /\ op.regions.r1 = <<>>
                   /\ op.regions.r2 = SubSeq(second, L - Len(first) + 1, Len(second))

BranchSelectionWitness ==
    /\ op.reads = 1 /\ op.regions.branch = 2
    /\ len(op.pre.buf) > capacity(buf) - op.pre.buf.tail
    /\ Len(op.regions.r2) >= 1
====
